---------------------------- MODULE Spec2Model ----------------------------
(***************************************************************************)
(* A model of referenceManager.py: the reference merger that parses RIS    *)
(* and delimited exports, removes duplicates by DOI and by fingerprint and *)
(* converts the survivors to the Scopus column layout.                     *)
(*                                                                         *)
(* A Python str is a sequence of characters; a character is a one-letter   *)
(* TLA+ string, except for the few non-ASCII code points the model needs:  *)
(*   "e_acute"    U+00E9  LATIN SMALL LETTER E WITH ACUTE                  *)
(*   "E_ACUTE"    U+00C9  LATIN CAPITAL LETTER E WITH ACUTE                *)
(*   "COMB_ACUTE" U+0301  COMBINING ACUTE ACCENT (category Mn)             *)
(*   "TAB", "CR", "LF"  U+0009, U+000D, U+000A                             *)
(* A missing cell of a pandas frame (float NaN) is the value NaN below.    *)
(***************************************************************************)
EXTENDS Integers, Sequences, FiniteSets, TLC

VARIABLES
    \* normalize_doi applied once and twice to one input
    doi, doi_once, doi_twice, doi_pc,
    \* main: deduplicate_records(all_records), then convert_to_scopus_format
    all_records, records_sorted, walked, seen_dois, seen_fingerprints,
    unique_records, duplicates_by_doi, duplicates_by_fingerprint,
    duplicate_details, scopus_df, pc,
    \* parse_ris_content(content): the lines of content, how many were read
    lines, line_no, current_record, records, ris_pc,
    \* records = parse_file(uploaded_file)
    uploaded_file, parsed, file_pc

doiVars == <<doi, doi_once, doi_twice, doi_pc>>
dedupVars == <<records_sorted, walked, seen_dois, seen_fingerprints, unique_records,
               duplicates_by_doi, duplicates_by_fingerprint, duplicate_details>>
mainVars == <<all_records, dedupVars, scopus_df, pc>>
risVars == <<lines, line_no, current_record, records, ris_pc>>
fileVars == <<uploaded_file, parsed, file_pc>>
vars == <<doiVars, mainVars, risVars, fileVars>>

----------------------------------------------------------------------------
(* Characters and str methods *)

UpperLetters == <<"A", "B", "C", "D", "E", "F", "G", "H", "I", "J", "K", "L", "M",
                  "N", "O", "P", "Q", "R", "S", "T", "U", "V", "W", "X", "Y", "Z">>
LowerLetters == <<"a", "b", "c", "d", "e", "f", "g", "h", "i", "j", "k", "l", "m",
                  "n", "o", "p", "q", "r", "s", "t", "u", "v", "w", "x", "y", "z">>
DigitChars == <<"0", "1", "2", "3", "4", "5", "6", "7", "8", "9">>
Digits == {DigitChars[i] : i \in 1..Len(DigitChars)}

Range(s) == {s[i] : i \in 1..Len(s)}

UpperSet == Range(UpperLetters) \cup {"E_ACUTE"}
LetterSet == Range(UpperLetters) \cup Range(LowerLetters) \cup {"e_acute", "E_ACUTE"}
SpaceSet == {" ", "TAB", "CR", "LF"}

IsLetter(c) == c \in LetterSet
IsSpace(c) == c \in SpaceSet

\* str.lower() on each character that has a lower-case form
LowerMap ==
    [c \in UpperSet |->
        IF c = "E_ACUTE" THEN "e_acute"
        ELSE LowerLetters[CHOOSE i \in 1..Len(UpperLetters) : UpperLetters[i] = c]]

\* str.lower() on one character
LowerChar(c) == IF c \in UpperSet THEN LowerMap[c] ELSE c

\* str.lower()
Lower(s) == [i \in 1..Len(s) |-> LowerChar(s[i])]

RECURSIVE LStrip(_)
\* str.lstrip()
LStrip(s) == IF s # <<>> /\ IsSpace(Head(s)) THEN LStrip(Tail(s)) ELSE s

RECURSIVE RStrip(_)
\* str.rstrip()
RStrip(s) == IF s # <<>> /\ IsSpace(s[Len(s)]) THEN RStrip(SubSeq(s, 1, Len(s) - 1)) ELSE s

\* str.strip()
Strip(s) == RStrip(LStrip(s))

\* str.startswith(p)
StartsWith(s, p) == Len(p) <= Len(s) /\ SubSeq(s, 1, Len(p)) = p

\* s[n:]
DropFirst(s, n) == SubSeq(s, n + 1, Len(s))

\* s[:n]
TakeFirst(s, n) == SubSeq(s, 1, IF Len(s) < n THEN Len(s) ELSE n)

\* float('nan'), the value pandas gives a missing cell; never equal to a str
NaN == <<"NaN">>
\* pd.isna(v)
IsNa(v) == v = NaN
\* str(v)
Str(v) == IF IsNa(v) THEN <<"n", "a", "n">> ELSE v
\* bool(v): the empty string is falsy, NaN (a non-zero float) is truthy
Truthy(v) == v # <<>>

----------------------------------------------------------------------------
(* normalize_doi *)

DoiPrefixes == <<
    <<"h", "t", "t", "p", "s", ":", "/", "/", "d", "x", ".", "d", "o", "i", ".", "o", "r", "g", "/">>,
    <<"h", "t", "t", "p", "s", ":", "/", "/", "d", "o", "i", ".", "o", "r", "g", "/">>,
    <<"h", "t", "t", "p", ":", "/", "/", "d", "o", "i", ".", "o", "r", "g", "/">>,
    <<"h", "t", "t", "p", ":", "/", "/", "d", "x", ".", "d", "o", "i", ".", "o", "r", "g", "/">>,
    <<"d", "o", "i", ":">>,
    <<"d", "o", "i", ".", "o", "r", "g", "/">> >>

RECURSIVE StripPrefixesFrom(_, _)
\* the for loop over the prefixes: one pass, each prefix tried once, in order
StripPrefixesFrom(s, k) ==
    IF k > Len(DoiPrefixes) THEN s
    ELSE LET prefix == DoiPrefixes[k]
         IN  IF StartsWith(Lower(s), Lower(prefix))
             THEN StripPrefixesFrom(DropFirst(s, Len(prefix)), k + 1)
             ELSE StripPrefixesFrom(s, k + 1)

normalize_doi(d) ==
    IF ~Truthy(d) \/ IsNa(d) THEN <<>>
    ELSE Strip(StripPrefixesFrom(Strip(d), 1))

----------------------------------------------------------------------------
(* normalize_text and create_fingerprint *)

\* unicodedata.normalize('NFD', c): the canonical decomposition of one character
NFDChar(c) ==
    IF c = "e_acute" THEN <<"e", "COMB_ACUTE">>
    ELSE IF c = "E_ACUTE" THEN <<"E", "COMB_ACUTE">>
    ELSE <<c>>

RECURSIVE NFD(_)
NFD(s) == IF s = <<>> THEN <<>> ELSE NFDChar(Head(s)) \o NFD(Tail(s))

\* unicodedata.category(c) == 'Mn'
IsMn(c) == c = "COMB_ACUTE"

\* the regular expression class \w on a str: alphanumerics of any script and "_"
IsWord(c) == IsLetter(c) \/ c \in Digits \/ c = "_"

\* ''.join(c for c in s if unicodedata.category(c) != 'Mn')
DropMn(s) ==
    LET F[i \in 0..Len(s)] ==
            IF i = 0 THEN <<>>
            ELSE IF IsMn(s[i]) THEN F[i - 1] ELSE Append(F[i - 1], s[i])
    IN  F[Len(s)]

\* re.sub(r'[^\w]', '', s)
KeepWord(s) ==
    LET F[i \in 0..Len(s)] ==
            IF i = 0 THEN <<>>
            ELSE IF IsWord(s[i]) THEN Append(F[i - 1], s[i]) ELSE F[i - 1]
    IN  F[Len(s)]

\* re.sub(r'[^\w\s]', ' ', s)
PunctToSpace(s) == [i \in 1..Len(s) |-> IF IsWord(s[i]) \/ IsSpace(s[i]) THEN s[i] ELSE " "]

RECURSIVE CollapseSpaces(_)
\* re.sub(r'\s+', ' ', s)
CollapseSpaces(s) ==
    IF s = <<>> THEN <<>>
    ELSE IF IsSpace(Head(s))
         THEN <<" ">> \o CollapseSpaces(LStrip(s))
         ELSE <<Head(s)>> \o CollapseSpaces(Tail(s))

normalize_text(text) ==
    IF ~Truthy(text) \/ IsNa(text) THEN <<>>
    ELSE Strip(CollapseSpaces(PunctToSpace(DropMn(NFD(Strip(Lower(text)))))))

RECURSIVE Before(_, _)
\* s.split(sep)[0], sep one character
Before(s, sep) ==
    IF s = <<>> \/ Head(s) = sep THEN <<>> ELSE <<Head(s)>> \o Before(Tail(s), sep)

\* dict.get(key, default)
Get(rec, key, default) == IF key \in DOMAIN rec THEN rec[key] ELSE default

\* x or ''
OrEmpty(v) == IF Truthy(v) THEN v ELSE <<>>

\* the first author key of create_fingerprint, without diacritic folding
FirstAuthor(authors) ==
    IF Truthy(authors)
    THEN KeepWord(Lower(Strip(Before(Before(Str(authors), ";"), ","))))
    ELSE <<>>

TitleLen == 50
YearLen == 4

create_fingerprint(record) ==
    LET title == normalize_text(Get(record, "title", <<>>))
        authors == OrEmpty(Get(record, "authors", <<>>))
        year == TakeFirst(Str(OrEmpty(Get(record, "year", <<>>))), YearLen)
    IN  TakeFirst(title, TitleLen) \o <<"|">> \o FirstAuthor(authors) \o <<"|">> \o year

----------------------------------------------------------------------------
(* deduplicate_records *)

\* the completeness score of one record
Score(rec) ==
    Cardinality({k \in DOMAIN rec :
                    Truthy(rec[k]) /\ ~IsNa(rec[k]) /\ Strip(Str(rec[k])) # <<>>})
    + (IF Truthy(Get(rec, "doi", <<>>)) THEN 10 ELSE 0)
    + (IF Truthy(Get(rec, "pmid", <<>>)) THEN 5 ELSE 0)
    + (IF Truthy(Get(rec, "abstract", <<>>)) THEN 5 ELSE 0)

\* key (score, idx) of records_scored, compared as Python compares tuples
KeyLess(a, b) == a.score < b.score \/ (a.score = b.score /\ a.idx < b.idx)

\* sorted(records_scored, key=lambda x: (x[0], x[1]), reverse=True): the entry
\* at position p is the one with p - 1 entries of greater key. A record keeps
\* its identity (the idx it had in the input) next to its fields.
SortedRecords(recs) ==
    LET scored == [i \in 1..Len(recs) |->
                      [score |-> Score(recs[i]), idx |-> i, rec |-> recs[i]]]
        rank(i) == 1 + Cardinality({j \in 1..Len(recs) : KeyLess(scored[i], scored[j])})
    IN  [p \in 1..Len(recs) |->
            LET i == CHOOSE i \in 1..Len(recs) : rank(i) = p
            IN  [idx |-> i, rec |-> recs[i]]]

\* a plausible slip: the lookup forgets the lower-casing that add() applies
DoiSeenExact(d, seen) == d \in seen

DoiSeen(d, seen) == Lower(d) \in seen

\* a plausible slip: any non-empty fingerprint is matched
MatchableNonEmpty(fingerprint) == fingerprint # <<>>

MinFingerprintLen == 10

\* fingerprint and len(fingerprint) > 10
Matchable(fingerprint) == fingerprint # <<>> /\ Len(fingerprint) > MinFingerprintLen

----------------------------------------------------------------------------
(* The loop of deduplicate_records over records_sorted, one record at a time *)

Unknown == <<"U", "n", "k", "n", "o", "w", "n">>

\* a plausible slip: the fingerprint is looked up even after a DOI match
FingerprintCheckedAlways(is_duplicate) == TRUE

\* if not is_duplicate: the fingerprint block runs only for a record the DOI
\* block did not remove
FingerprintChecked(is_duplicate) == ~is_duplicate

\* what one iteration of the loop does with `item`, given the state so far
WalkRecord(item, dois, fingerprints) ==
    LET record == item.rec
        d == normalize_doi(Get(record, "doi", <<>>))
        source_db == Get(record, "_source_db", Unknown)
        by_doi == d # <<>> /\ DoiSeen(d, dois)
        dois_after == IF d # <<>> /\ ~by_doi THEN dois \cup {Lower(d)} ELSE dois
        fingerprint == create_fingerprint(record)
        checked == FingerprintChecked(by_doi) /\ Matchable(fingerprint)
        by_fingerprint == checked /\ fingerprint \in fingerprints
        fingerprints_after ==
            IF checked /\ ~by_fingerprint
            THEN fingerprints \cup {fingerprint}
            ELSE fingerprints
    IN  [ seen_dois |-> dois_after,
          seen_fingerprints |-> fingerprints_after,
          by_doi |-> by_doi,
          by_fingerprint |-> by_fingerprint,
          is_duplicate |-> by_doi \/ by_fingerprint,
          source_db |-> source_db ]

----------------------------------------------------------------------------
(* convert_to_scopus_format *)

RECURSIVE YearSearch(_)
\* re.search(r'(19|20)\d{2}', s): the leftmost match, or <<>> when there is none
YearSearch(s) ==
    IF Len(s) < 4 THEN <<>>
    ELSE IF /\ SubSeq(s, 1, 2) \in {<<"1", "9">>, <<"2", "0">>}
            /\ s[3] \in Digits
            /\ s[4] \in Digits
         THEN SubSeq(s, 1, 4)
         ELSE YearSearch(Tail(s))

RECURSIVE AfterLast(_, _)
\* s.split(sep)[-1], sep one character
AfterLast(s, sep) ==
    IF s = <<>> THEN <<>>
    ELSE IF s[Len(s)] = sep THEN <<>>
    ELSE Append(AfterLast(SubSeq(s, 1, Len(s) - 1), sep), s[Len(s)])

\* the digits of 85000000000, the base of the synthetic EID
EidBase == <<8, 5, 0, 0, 0, 0, 0, 0, 0, 0, 0>>

RECURSIVE AddToDigits(_, _)
\* the decimal digits of (the number ds) + n
AddToDigits(ds, n) ==
    IF n = 0 THEN ds
    ELSE IF ds = <<>> THEN AddToDigits(<<0>>, n)
    ELSE LET last == ds[Len(ds)] + n
         IN  Append(AddToDigits(SubSeq(ds, 1, Len(ds) - 1), last \div 10), last % 10)

\* f'2-s2.0-{85000000000 + i}'
Eid(i) ==
    LET ds == AddToDigits(EidBase, i)
    IN  <<"2", "-", "s", "2", ".", "0", "-">> \o [k \in 1..Len(ds) |-> DigitChars[ds[k] + 1]]

English == <<"E", "n", "g", "l", "i", "s", "h">>

\* page_start and page_end after the "Parse pages if not already split" block
Pages(rec) ==
    LET page_start == OrEmpty(Get(rec, "page_start", <<>>))
        page_end == OrEmpty(Get(rec, "page_end", <<>>))
        pages == OrEmpty(Get(rec, "pages", <<>>))
    IN  IF Truthy(pages) /\ ~Truthy(page_start)
        THEN IF "-" \in Range(Str(pages))
             THEN [start |-> Strip(Before(Str(pages), "-")),
                   end |-> Strip(AfterLast(Str(pages), "-"))]
             ELSE [start |-> Str(pages), end |-> page_end]
        ELSE [start |-> page_start, end |-> page_end]

\* the keys of scopus_rec, in the order the dict literal inserts them
ScopusKeys == <<
    "Authors", "Author full names", "Author(s) ID", "Title", "Year", "Source title",
    "Volume", "Issue", "Art. No.", "Page start", "Page end", "Cited by", "DOI", "Link",
    "Affiliations", "Authors with affiliations", "Abstract", "Author Keywords",
    "Index Keywords", "Molecular Sequence Numbers", "Chemicals/CAS", "Tradenames",
    "Manufacturers", "Funding Details", "Funding Texts", "References",
    "Correspondence Address", "Editors", "Publisher", "Sponsors", "Conference name",
    "Conference date", "Conference location", "Conference code", "ISSN", "ISBN",
    "CODEN", "PubMed ID", "Language of Original Document", "Abbreviated Source Title",
    "Document Type", "Publication Stage", "Open Access", "Source", "EID" >>

\* the value scopus_rec holds under `key` for record `rec` at position i
ScopusValue(key, rec, i) ==
    LET field(name) == OrEmpty(Get(rec, name, <<>>))
        year == field("year")
    IN  CASE key \in {"Authors", "Author full names"} -> field("authors")
          [] key = "Title" -> field("title")
          [] key = "Year" -> IF Truthy(year) THEN YearSearch(Str(year)) ELSE <<>>
          [] key = "Source title" -> field("source")
          [] key = "Volume" -> field("volume")
          [] key = "Issue" -> field("issue")
          [] key = "Page start" -> Pages(rec).start
          [] key = "Page end" -> Pages(rec).end
          [] key = "Cited by" -> <<"0">>
          [] key = "DOI" -> normalize_doi(field("doi"))
          [] key = "Link" -> field("url")
          [] key = "Affiliations" -> field("affiliations")
          [] key = "Abstract" -> field("abstract")
          [] key = "Author Keywords" -> field("keywords")
          [] key = "Publisher" -> field("publisher")
          [] key = "ISSN" -> field("issn")
          [] key = "PubMed ID" -> field("pmid")
          [] key = "Language of Original Document" ->
                 IF Truthy(Get(rec, "language", English)) THEN Get(rec, "language", English)
                 ELSE English
          [] key = "Abbreviated Source Title" -> field("source_abbrev")
          [] key = "Document Type" -> <<"A", "r", "t", "i", "c", "l", "e">>
          [] key = "Publication Stage" -> <<"F", "i", "n", "a", "l">>
          [] key = "Source" -> <<"S", "c", "o", "p", "u", "s">>
          [] key = "EID" -> Eid(i)
          [] OTHER -> <<>>

\* scopus_rec for the record at (zero-based) position i of the survivors
ScopusRec(rec, i) == [key \in Range(ScopusKeys) |-> ScopusValue(key, rec, i)]

\* pd.DataFrame(scopus_records): the columns are the keys of the dicts, in
\* insertion order; a frame made from an empty list has no columns
DataFrame(rows, keys) == [columns |-> IF rows = <<>> THEN <<>> ELSE keys, rows |-> rows]

\* a plausible slip: the last name is left out of the list
column_order_short == [k \in 1..(Len(ScopusKeys) - 1) |-> ScopusKeys[k]]

column_order == <<
    "Authors", "Author full names", "Author(s) ID", "Title", "Year", "Source title",
    "Volume", "Issue", "Art. No.", "Page start", "Page end", "Cited by", "DOI", "Link",
    "Affiliations", "Authors with affiliations", "Abstract", "Author Keywords",
    "Index Keywords", "Molecular Sequence Numbers", "Chemicals/CAS", "Tradenames",
    "Manufacturers", "Funding Details", "Funding Texts", "References",
    "Correspondence Address", "Editors", "Publisher", "Sponsors", "Conference name",
    "Conference date", "Conference location", "Conference code", "ISSN", "ISBN",
    "CODEN", "PubMed ID", "Language of Original Document", "Abbreviated Source Title",
    "Document Type", "Publication Stage", "Open Access", "Source", "EID" >>

\* df[cols]: a KeyError when a name of cols is not a column of df
HasColumns(df, cols) == Range(cols) \subseteq Range(df.columns)
SelectColumns(df, cols) ==
    [columns |-> cols,
     rows |-> [r \in 1..Len(df.rows) |-> [c \in Range(cols) |-> df.rows[r][c]]]]

NoFrame == [columns |-> <<>>, rows |-> <<>>]

----------------------------------------------------------------------------
(* parse_ris_content *)

\* a dict is a function from its keys; {} has no keys
EmptyDict == [k \in {} |-> <<>>]
\* d[key] = value
Put(d, key, value) == [k \in DOMAIN d \cup {key} |-> IF k = key THEN value ELSE d[k]]
\* d without key (d.pop(key))
Without(d, key) == [k \in DOMAIN d \ {key} |-> d[k]]

\* the tag table; "" stands for None (the three-letter key 'DOI' is in the
\* table too, and no two-character tag can ever equal it)
ris_mapping(tag) ==
    CASE tag = <<"T", "I">> -> "title"
      [] tag = <<"T", "1">> -> "title"
      [] tag = <<"A", "U">> -> "authors"
      [] tag = <<"A", "1">> -> "authors"
      [] tag = <<"A", "2">> -> "authors"
      [] tag = <<"P", "Y">> -> "year"
      [] tag = <<"Y", "1">> -> "year"
      [] tag = <<"D", "A">> -> "year"
      [] tag = <<"Y", "2">> -> "year"
      [] tag = <<"A", "B">> -> "abstract"
      [] tag = <<"N", "2">> -> "abstract"
      [] tag = <<"D", "O">> -> "doi"
      [] tag = <<"D", "O", "I">> -> "doi"
      [] tag = <<"J", "F">> -> "source"
      [] tag = <<"T", "2">> -> "source"
      [] tag = <<"J", "O">> -> "source_abbrev"
      [] tag = <<"J", "A">> -> "source_abbrev"
      [] tag = <<"J", "2">> -> "source_abbrev"
      [] tag = <<"V", "L">> -> "volume"
      [] tag = <<"I", "S">> -> "issue"
      [] tag = <<"S", "P">> -> "page_start"
      [] tag = <<"E", "P">> -> "page_end"
      [] tag = <<"S", "N">> -> "issn"
      [] tag = <<"P", "B">> -> "publisher"
      [] tag = <<"L", "A">> -> "language"
      [] tag = <<"K", "W">> -> "keywords"
      [] tag = <<"U", "R">> -> "url"
      [] tag = <<"L", "2">> -> "url"
      [] tag = <<"A", "N">> -> "accession"
      [] tag = <<"I", "D">> -> "id"
      [] tag = <<"D", "B">> -> "database"
      [] tag = <<"D", "P">> -> "database"
      [] tag = <<"A", "D">> -> "affiliations"
      [] tag = <<"N", "1">> -> "notes"
      [] tag = <<"T", "Y">> -> "doc_type"
      [] tag = <<"M", "3">> -> "doc_type_alt"
      [] tag = <<"P", "M">> -> "pmid"
      [] tag = <<"C", "2">> -> "pmid"
      [] tag = <<"C", "7">> -> "article_number"
      [] OTHER -> ""

AsciiUpper == Range(UpperLetters)
NoMatch == [ok |-> FALSE, tag |-> <<>>, value |-> <<>>]

\* re.match(r'^([A-Z][A-Z0-9])\s+-\s*(.*)$', line) and value.strip()
Match(line) ==
    IF Len(line) < 4 \/ line[1] \notin AsciiUpper \/ line[2] \notin AsciiUpper \cup Digits
    THEN NoMatch
    ELSE LET rest == DropFirst(line, 2)
             after == LStrip(rest)
         IN  IF IsSpace(Head(rest)) /\ after # <<>> /\ Head(after) = "-"
             THEN [ok |-> TRUE, tag |-> SubSeq(line, 1, 2), value |-> Strip(Tail(after))]
             ELSE NoMatch

\* line.rstrip('\r\n')
RECURSIVE RStripNewline(_)
RStripNewline(s) ==
    IF s # <<>> /\ s[Len(s)] \in {"CR", "LF"} THEN RStripNewline(SubSeq(s, 1, Len(s) - 1)) ELSE s

RECURSIVE Join(_, _)
\* sep.join(list)
Join(list, sep) ==
    IF list = <<>> THEN <<>>
    ELSE IF Len(list) = 1 THEN list[1]
    ELSE list[1] \o sep \o Join(Tail(list), sep)

IssnMark == <<"(", "I", "S", "S", "N", ")">>

RECURSIVE RemoveIssnMark(_)
\* re.sub(r'\s*\(ISSN\)', '', s)
RemoveIssnMark(s) ==
    IF s = <<>> THEN <<>>
    ELSE IF StartsWith(LStrip(s), IssnMark)
         THEN RemoveIssnMark(DropFirst(LStrip(s), Len(IssnMark)))
         ELSE <<Head(s)>> \o RemoveIssnMark(Tail(s))

RECURSIVE FirstToken(_)
\* s.split()[0] for a stripped, non-empty s
FirstToken(s) ==
    IF s = <<>> \/ IsSpace(Head(s)) THEN <<>> ELSE <<Head(s)>> \o FirstToken(Tail(s))

\* the joins of save_record: each list, when present, replaces its field
Joined(d, list_key, field, sep) ==
    IF list_key \in DOMAIN d THEN Put(Without(d, list_key), field, Join(d[list_key], sep)) ELSE d

\* the record save_record appends, for a non-empty current_record
Closed(d) ==
    Joined(Joined(Joined(d, "AU_list", "authors", <<";">>),
                  "KW_list", "keywords", <<";", " ">>),
           "AD_list", "affiliations", <<";", " ">>)

\* records after save_record()
save_record(recs, d) == IF DOMAIN d # {} THEN Append(recs, Closed(d)) ELSE recs

\* list.append on the list under list_key, created when missing
AppendTo(d, list_key, value) ==
    Put(d, list_key, Append(IF list_key \in DOMAIN d THEN d[list_key] ELSE <<>>, value))

YearTags == {<<"P", "Y">>, <<"Y", "1">>, <<"D", "A">>, <<"Y", "2">>}
AuthorTags == {<<"A", "U">>, <<"A", "1">>, <<"A", "2">>}

\* the year branch: a year found in the value is stored, whatever was there
StoreYear(d, value) ==
    IF YearSearch(value) # <<>> THEN Put(d, "year", YearSearch(value)) ELSE d

\* the last branch: first value wins
StoreField(d, field, value) == IF field \notin DOMAIN d THEN Put(d, field, value) ELSE d

\* current_record after a tag line that is neither ER nor TY
Tagged(d, tag, value) ==
    LET field == ris_mapping(tag)
    IN  IF field = "" THEN d
        ELSE IF tag \in AuthorTags THEN AppendTo(d, "AU_list", value)
        ELSE IF tag = <<"K", "W">> THEN AppendTo(d, "KW_list", value)
        ELSE IF tag = <<"A", "D">> THEN AppendTo(d, "AD_list", value)
        ELSE IF tag \in YearTags THEN StoreYear(d, value)
        ELSE IF tag = <<"S", "N">>
             THEN LET issn_clean == Strip(RemoveIssnMark(value))
                  IN  IF ~Truthy(Get(d, "issn", <<>>))
                      THEN Put(d, "issn", IF issn_clean # <<>> THEN FirstToken(issn_clean) ELSE <<>>)
                      ELSE d
        ELSE StoreField(d, field, value)

\* a plausible slip: ER saves the record and leaves it open
AfterErKeepOpen(recs, d) == [records |-> save_record(recs, d), current_record |-> d]

\* the ER branch
AfterEr(recs, d) == [records |-> save_record(recs, d), current_record |-> EmptyDict]

\* the TY branch
AfterTy(recs, d, value) ==
    [records |-> save_record(recs, d), current_record |-> [doc_type |-> value]]

\* one iteration of `for line in lines`
AfterLine(recs, d, raw) ==
    LET m == Match(RStripNewline(raw))
    IN  IF ~m.ok THEN [records |-> recs, current_record |-> d]
        ELSE IF m.tag = <<"E", "R">> THEN AfterEr(recs, d)
        ELSE IF m.tag = <<"T", "Y">> THEN AfterTy(recs, d, m.value)
        ELSE [records |-> recs, current_record |-> Tagged(d, m.tag, m.value)]

----------------------------------------------------------------------------
(* parse_csv_content and parse_file.  A column name is a str, so the keys  *)
(* of the records of a delimited file are character sequences here.        *)

RECURSIVE Split(_, _)
\* s.split(sep), sep one character
Split(s, sep) ==
    IF sep \notin Range(s) THEN <<s>>
    ELSE <<Before(s, sep)>> \o Split(DropFirst(s, Len(Before(s, sep)) + 1), sep)

\* pd.read_csv(io.StringIO(content), delimiter=sep, dtype=str, on_bad_lines='skip')
\* for content without quoting, with distinct header cells and no line of more
\* fields than the header: the first line names the columns; a blank line is
\* skipped, a short line is padded, and an empty cell reads as NaN.  No
\* columns at all is pandas' EmptyDataError.
read_csv(content, sep) ==
    LET all == Split(content, "LF")
        header == Split(Head(all), sep)
        data == SelectSeq(Tail(all), LAMBDA l : l # <<>>)
        cell(l, c) == IF c > Len(Split(l, sep)) \/ Split(l, sep)[c] = <<>>
                      THEN NaN ELSE Split(l, sep)[c]
    IN  [ ok |-> Head(all) # <<>>,
          columns |-> header,
          rows |-> [r \in 1..Len(data) |-> [c \in 1..Len(header) |-> cell(data[r], c)]] ]

\* column_mapping, and the name rename() leaves a column with; a header that
\* is not in the table keeps its name
column_mapping(name) ==
    CASE name = <<"t", "i", "t", "l", "e">> ->
           <<"t", "i", "t", "l", "e">>
      [] name = <<"a", "r", "t", "i", "c", "l", "e", " ", "t", "i", "t", "l", "e">> ->
           <<"t", "i", "t", "l", "e">>
      [] name = <<"d", "o", "c", "u", "m", "e", "n", "t", " ", "t", "i", "t", "l", "e">> ->
           <<"t", "i", "t", "l", "e">>
      [] name = <<"t", "i">> ->
           <<"t", "i", "t", "l", "e">>
      [] name = <<"a", "u", "t", "h", "o", "r", "s">> ->
           <<"a", "u", "t", "h", "o", "r", "s">>
      [] name = <<"a", "u", "t", "h", "o", "r">> ->
           <<"a", "u", "t", "h", "o", "r", "s">>
      [] name = <<"a", "u">> ->
           <<"a", "u", "t", "h", "o", "r", "s">>
      [] name = <<"y", "e", "a", "r">> ->
           <<"y", "e", "a", "r">>
      [] name = <<"p", "u", "b", "l", "i", "c", "a", "t", "i", "o", "n", " ", "y", "e", "a", "r">> ->
           <<"y", "e", "a", "r">>
      [] name = <<"p", "y">> ->
           <<"y", "e", "a", "r">>
      [] name = <<"p", "u", "b", "y", "e", "a", "r">> ->
           <<"y", "e", "a", "r">>
      [] name = <<"a", "b", "s", "t", "r", "a", "c", "t">> ->
           <<"a", "b", "s", "t", "r", "a", "c", "t">>
      [] name = <<"a", "b">> ->
           <<"a", "b", "s", "t", "r", "a", "c", "t">>
      [] name = <<"d", "o", "i">> ->
           <<"d", "o", "i">>
      [] name = <<"d", "i">> ->
           <<"d", "o", "i">>
      [] name = <<"j", "o", "u", "r", "n", "a", "l">> ->
           <<"s", "o", "u", "r", "c", "e">>
      [] name = <<"s", "o", "u", "r", "c", "e">> ->
           <<"s", "o", "u", "r", "c", "e">>
      [] name = <<"s", "o", "u", "r", "c", "e", " ", "t", "i", "t", "l", "e">> ->
           <<"s", "o", "u", "r", "c", "e">>
      [] name = <<"s", "o">> ->
           <<"s", "o", "u", "r", "c", "e">>
      [] name = <<"i", "s", "s", "n">> ->
           <<"i", "s", "s", "n">>
      [] name = <<"s", "n">> ->
           <<"i", "s", "s", "n">>
      [] name = <<"v", "o", "l", "u", "m", "e">> ->
           <<"v", "o", "l", "u", "m", "e">>
      [] name = <<"v", "l">> ->
           <<"v", "o", "l", "u", "m", "e">>
      [] name = <<"i", "s", "s", "u", "e">> ->
           <<"i", "s", "s", "u", "e">>
      [] name = <<"i", "s">> ->
           <<"i", "s", "s", "u", "e">>
      [] name = <<"p", "a", "g", "e", "s">> ->
           <<"p", "a", "g", "e", "s">>
      [] name = <<"p", "a", "g", "e">> ->
           <<"p", "a", "g", "e", "s">>
      [] name = <<"k", "e", "y", "w", "o", "r", "d", "s">> ->
           <<"k", "e", "y", "w", "o", "r", "d", "s">>
      [] name = <<"a", "u", "t", "h", "o", "r", " ", "k", "e", "y", "w", "o", "r", "d", "s">> ->
           <<"k", "e", "y", "w", "o", "r", "d", "s">>
      [] name = <<"d", "e">> ->
           <<"k", "e", "y", "w", "o", "r", "d", "s">>
      [] name = <<"l", "a", "n", "g", "u", "a", "g", "e">> ->
           <<"l", "a", "n", "g", "u", "a", "g", "e">>
      [] name = <<"l", "a">> ->
           <<"l", "a", "n", "g", "u", "a", "g", "e">>
      [] name = <<"a", "f", "f", "i", "l", "i", "a", "t", "i", "o", "n", "s">> ->
           <<"a", "f", "f", "i", "l", "i", "a", "t", "i", "o", "n", "s">>
      [] name = <<"a", "f", "f", "i", "l", "i", "a", "t", "i", "o", "n">> ->
           <<"a", "f", "f", "i", "l", "i", "a", "t", "i", "o", "n", "s">>
      [] name = <<"p", "u", "b", "l", "i", "s", "h", "e", "r">> ->
           <<"p", "u", "b", "l", "i", "s", "h", "e", "r">>
      [] name = <<"p", "u">> ->
           <<"p", "u", "b", "l", "i", "s", "h", "e", "r">>
      [] name = <<"d", "o", "c", "u", "m", "e", "n", "t", " ", "t", "y", "p", "e">> ->
           <<"d", "o", "c", "_", "t", "y", "p", "e">>
      [] name = <<"t", "y", "p", "e">> ->
           <<"d", "o", "c", "_", "t", "y", "p", "e">>
      [] name = <<"d", "t">> ->
           <<"d", "o", "c", "_", "t", "y", "p", "e">>
      [] name = <<"c", "i", "t", "e", "d", " ", "b", "y">> ->
           <<"c", "i", "t", "e", "d", "_", "b", "y">>
      [] name = <<"c", "i", "t", "a", "t", "i", "o", "n", "s">> ->
           <<"c", "i", "t", "e", "d", "_", "b", "y">>
      [] name = <<"t", "c">> ->
           <<"c", "i", "t", "e", "d", "_", "b", "y">>
      [] name = <<"u", "r", "l">> ->
           <<"u", "r", "l">>
      [] name = <<"l", "i", "n", "k">> ->
           <<"u", "r", "l">>
      [] name = <<"p", "m", "i", "d">> ->
           <<"p", "m", "i", "d">>
      [] name = <<"p", "u", "b", "m", "e", "d", " ", "i", "d">> ->
           <<"p", "m", "i", "d">>
      [] OTHER -> name

\* df.to_dict('records'): one dict per row; of several columns with one name
\* the last one's value stays
to_dict(df) ==
    [r \in 1..Len(df.rows) |->
        [name \in Range(df.columns) |->
            df.rows[r][CHOOSE c \in 1..Len(df.columns) :
                          /\ df.columns[c] = name
                          /\ \A c2 \in 1..Len(df.columns) : df.columns[c2] = name => c2 <= c]]]

\* the header of parse_csv_content: lower-cased, trimmed, renamed
Renamed(df) ==
    [df EXCEPT !.columns = [c \in 1..Len(df.columns) |->
                               column_mapping(Strip(Lower(df.columns[c])))]]

\* parse_csv_content; "raised" when read_csv raises
parse_csv_content(content) ==
    LET df == read_csv(content, ",")
    IN  IF df.ok THEN [raised |-> FALSE, records |-> to_dict(Renamed(df))]
        ELSE [raised |-> TRUE, records |-> <<>>]

\* the .tsv/.txt branch of parse_file
tab_separated(content) ==
    LET df == read_csv(content, "TAB")
    IN  IF df.ok THEN [raised |-> FALSE, records |-> to_dict(df)]
        ELSE [raised |-> TRUE, records |-> <<>>]

RECURSIVE RisRecords(_, _, _)
\* parse_ris_content on a whole content: the loop over its lines, then the last save
RisRecords(ls, recs, d) ==
    IF ls = <<>> THEN save_record(recs, d)
    ELSE LET out == AfterLine(recs, d, Head(ls))
         IN  RisRecords(Tail(ls), out.records, out.current_record)

parse_ris_content(content) == RisRecords(Split(content, "LF"), <<>>, EmptyDict)

ExtRis == <<".", "r", "i", "s">>
ExtCsv == <<".", "c", "s", "v">>
ExtTsv == <<".", "t", "s", "v">>
ExtTxt == <<".", "t", "x", "t">>
ExtBib == <<".", "b", "i", "b">>

\* parse_file: the records, and whether the except branch reported an error
parse_file(file) ==
    LET ext == Lower(file.ext)
    IN  IF ext = ExtRis THEN [raised |-> FALSE, records |-> parse_ris_content(file.content)]
        ELSE IF ext = ExtCsv THEN parse_csv_content(file.content)
        ELSE IF ext \in {ExtTsv, ExtTxt} THEN tab_separated(file.content)
        ELSE [raised |-> FALSE, records |-> <<>>]

----------------------------------------------------------------------------
(* Each specification below runs one part of the program and leaves the    *)
(* variables of the other parts at rest.                                   *)

DoiIdle == doi = <<>> /\ doi_once = <<>> /\ doi_twice = <<>> /\ doi_pc = "idle"

MainIdle ==
    /\ all_records = <<>>
    /\ records_sorted = <<>>
    /\ walked = 0
    /\ seen_dois = {}
    /\ seen_fingerprints = {}
    /\ unique_records = <<>>
    /\ duplicates_by_doi = 0
    /\ duplicates_by_fingerprint = 0
    /\ duplicate_details = <<>>
    /\ scopus_df = NoFrame
    /\ pc = "idle"

RisIdle ==
    /\ lines = <<>>
    /\ line_no = 0
    /\ current_record = EmptyDict
    /\ records = <<>>
    /\ ris_pc = "idle"

FileIdle ==
    /\ uploaded_file = [ext |-> <<>>, content |-> <<>>]
    /\ parsed = <<>>
    /\ file_pc = "idle"

----------------------------------------------------------------------------
(* Inputs of normalize_doi: up to MaxParts pieces, each a known prefix (in  *)
(* lower or upper case), white space or an identifier body.                *)

MaxParts == 3

DoiPieces ==
    Range(DoiPrefixes) \cup
    { <<"D", "O", "I", ":">>,
      <<"H", "T", "T", "P", "S", ":", "/", "/", "D", "O", "I", ".", "O", "R", "G", "/">>,
      <<" ">>,
      <<"1", "0", ".", "1", "/", "x">> }

RECURSIVE Concat(_)
Concat(ps) == IF ps = <<>> THEN <<>> ELSE Head(ps) \o Concat(Tail(ps))

DoiInputs ==
    {NaN} \cup {Concat(ps) : ps \in UNION {[1..n -> DoiPieces] : n \in 0..MaxParts}}

DoiInit ==
    /\ doi \in DoiInputs
    /\ doi_once = <<>>
    /\ doi_twice = <<>>
    /\ doi_pc = "start"
    /\ MainIdle
    /\ RisIdle
    /\ FileIdle

NormalizeOnce ==
    /\ doi_pc = "start"
    /\ doi_once' = normalize_doi(doi)
    /\ doi_pc' = "once"
    /\ UNCHANGED <<doi, doi_twice, mainVars, risVars, fileVars>>

NormalizeTwice ==
    /\ doi_pc = "once"
    /\ doi_twice' = normalize_doi(doi_once)
    /\ doi_pc' = "twice"
    /\ UNCHANGED <<doi, doi_once, mainVars, risVars, fileVars>>

DoiNext == NormalizeOnce \/ NormalizeTwice

SpecDoi == DoiInit /\ [][DoiNext]_vars

----------------------------------------------------------------------------
(* main: the records accumulated from the uploaded files are deduplicated  *)
(* and the survivors converted.  The input is any list of up to MaxRecords *)
(* records of RecordPool, which holds records as the parsers leave them:   *)
(* RIS records carry only the keys their tags set, a record of a delimited *)
(* file carries every column, NaN where the cell is empty.                 *)

MaxRecords == 3

CafeStudy == <<"C", "a", "f", "e_acute", " ", "S", "t", "u", "d", "y">>
cafe_study == <<"c", "a", "f", "e", " ", "s", "t", "u", "d", "y">>
OtherWork == <<"O", "t", "h", "e", "r", " ", "W", "o", "r", "k">>
PerezAccent == <<"P", "e_acute", "r", "e", "z", ",", " ", "J", ";", "R", "o", "e", ",", " ", "A">>
PerezPlain == <<"P", "e", "r", "e", "z", ",", " ", "J", ";", "R", "o", "e", ",", " ", "A">>
Y2020 == <<"2", "0", "2", "0">>
DoiUrlX == <<"h", "t", "t", "p", "s", ":", "/", "/", "d", "o", "i", ".", "o", "r", "g", "/", "1", "0", ".", "1", "/", "x">>
DoiBareX == <<"1", "0", ".", "1", "/", "x">>
DoiUpperX == <<"D", "O", "I", ":", "1", "0", ".", "1", "/", "X">>
DoiSchemeY == <<"d", "o", "i", ":", "1", "0", ".", "2", "/", "y">>
DoiBareY == <<"1", "0", ".", "2", "/", "y">>
Medline == <<"M", "E", "D", "L", "I", "N", "E">>
Embase == <<"E", "m", "b", "a", "s", "e">>
Scopus == <<"S", "c", "o", "p", "u", "s">>
Jour == <<"J", "O", "U", "R">>

RecordPool == {
    \* the same work from two sources: same DOI behind different prefixes,
    \* titles that differ in case and accent, equal completeness
    [doc_type |-> Jour, title |-> CafeStudy, authors |-> PerezPlain, year |-> Y2020,
     doi |-> DoiUrlX, _source_db |-> Medline],
    [doc_type |-> Jour, title |-> cafe_study, authors |-> PerezPlain, year |-> Y2020,
     doi |-> DoiBareX, _source_db |-> Embase],
    \* no DOI; the first author carries an accent
    [title |-> cafe_study, authors |-> PerezAccent, year |-> Y2020,
     pages |-> <<"1", "2", "-", "3", "4">>, _source_db |-> Embase],
    \* no DOI; differ from each other in the case and accent of the title only
    [title |-> CafeStudy, authors |-> PerezPlain, year |-> Y2020, _source_db |-> Medline],
    [title |-> cafe_study, authors |-> PerezPlain, year |-> Y2020,
     pages |-> <<"1", "2", "-", "3", "4">>, page_end |-> <<"9", "9">>, _source_db |-> Scopus],
    \* no DOI and next to nothing to fingerprint
    [year |-> Y2020, _source_db |-> Medline],
    [year |-> Y2020, abstract |-> <<"x">>, pages |-> <<"7">>, _source_db |-> Embase],
    \* a row of a delimited file with every cell empty
    [title |-> NaN, authors |-> NaN, year |-> NaN, doi |-> NaN, _source_db |-> Scopus],
    \* a second DOI, on another work and on the first work
    [title |-> OtherWork, authors |-> PerezPlain, year |-> Y2020, doi |-> DoiSchemeY,
     pages |-> <<"1", "2", "-", "3", "4">>, page_start |-> <<"5">>, page_end |-> <<"9">>,
     _source_db |-> Scopus],
    [title |-> cafe_study, authors |-> PerezPlain, year |-> Y2020, doi |-> DoiBareY,
     abstract |-> <<"x">>, _source_db |-> Embase],
    \* the first DOI in upper case, nothing else
    [doi |-> DoiUpperX, _source_db |-> Medline] }

RecordLists == UNION {[1..n -> RecordPool] : n \in 0..MaxRecords}

Init ==
    /\ all_records \in RecordLists
    /\ records_sorted = <<>>
    /\ walked = 0
    /\ seen_dois = {}
    /\ seen_fingerprints = {}
    /\ unique_records = <<>>
    /\ duplicates_by_doi = 0
    /\ duplicates_by_fingerprint = 0
    /\ duplicate_details = <<>>
    /\ scopus_df = NoFrame
    /\ pc = "start"
    /\ DoiIdle
    /\ RisIdle
    /\ FileIdle

\* deduplicate_records up to its loop: score, sort, reset the counters
Deduplicate ==
    /\ pc = "start"
    /\ records_sorted' = SortedRecords(all_records)
    /\ walked' = 0
    /\ seen_dois' = {}
    /\ seen_fingerprints' = {}
    /\ unique_records' = <<>>
    /\ duplicates_by_doi' = 0
    /\ duplicates_by_fingerprint' = 0
    /\ duplicate_details' = <<>>
    /\ pc' = "walk"
    /\ UNCHANGED <<all_records, scopus_df, doiVars, risVars, fileVars>>

\* one iteration of `for record in records_sorted`
Walk ==
    /\ pc = "walk"
    /\ walked < Len(records_sorted)
    /\ \E item \in {records_sorted[walked + 1]} :
       \E out \in {WalkRecord(item, seen_dois, seen_fingerprints)} :
           /\ seen_dois' = out.seen_dois
           /\ seen_fingerprints' = out.seen_fingerprints
           /\ duplicates_by_doi' = duplicates_by_doi + (IF out.by_doi THEN 1 ELSE 0)
           /\ duplicates_by_fingerprint' =
                  duplicates_by_fingerprint + (IF out.by_fingerprint THEN 1 ELSE 0)
           /\ duplicate_details' =
                  duplicate_details
                  \o (IF out.by_doi THEN << <<"DOI", out.source_db>> >> ELSE <<>>)
                  \o (IF out.by_fingerprint
                      THEN << <<"Fingerprint", out.source_db>> >> ELSE <<>>)
           /\ unique_records' =
                  IF out.is_duplicate THEN unique_records ELSE Append(unique_records, item)
    /\ walked' = walked + 1
    /\ UNCHANGED <<all_records, records_sorted, scopus_df, pc, doiVars, risVars, fileVars>>

\* the loop is over: deduplicate_records returns and main converts the survivors
Convert ==
    /\ pc = "walk"
    /\ walked = Len(records_sorted)
    /\ LET scopus_records == [i \in 1..Len(unique_records) |->
                                 ScopusRec(unique_records[i].rec, i - 1)]
           df == DataFrame(scopus_records, ScopusKeys)
       IN  IF HasColumns(df, column_order)
           THEN scopus_df' = SelectColumns(df, column_order) /\ pc' = "converted"
           ELSE scopus_df' = scopus_df /\ pc' = "KeyError"
    /\ UNCHANGED <<all_records, dedupVars, doiVars, risVars, fileVars>>

Next == Deduplicate \/ Walk \/ Convert

Spec == Init /\ [][Next]_vars

----------------------------------------------------------------------------
(* parse_ris_content on any content of up to MaxLines lines of LinePool.   *)

MaxLines == 3

LinePool == {
    <<"T", "Y", " ", " ", "-", " ", "J", "O", "U", "R">>,
    <<"T", "Y", " ", " ", "-", " ", "B", "O", "O", "K">>,
    <<"E", "R", " ", " ", "-", " ">>,
    <<"T", "I", " ", " ", "-", " ", "A", " ", "b">>,
    <<"T", "1", " ", " ", "-", " ", "C">>,
    <<"P", "Y", " ", " ", "-", " ", "2", "0", "2", "0">>,
    <<"D", "A", " ", " ", "-", " ", "2", "0", "2", "1", "/", "0", "3">>,
    <<"A", "U", " ", " ", "-", " ", "R", "o", "e", ",", " ", "A">>,
    <<"S", "N", " ", " ", "-", " ", "1", "2", " ", "(", "I", "S", "S", "N", ")", " ", "3", "4">>,
    <<"t", "i", " ", " ", "-", " ", "x">>,
    <<"E", "R", " ", " ", "-", " ", "CR">> }

LineLists == UNION {[1..n -> LinePool] : n \in 0..MaxLines}

RisInit ==
    /\ lines \in LineLists
    /\ line_no = 0
    /\ current_record = EmptyDict
    /\ records = <<>>
    /\ ris_pc = "reading"
    /\ DoiIdle
    /\ MainIdle
    /\ FileIdle

\* `for line in lines`: one line
ReadLine ==
    /\ ris_pc = "reading"
    /\ line_no < Len(lines)
    /\ \E out \in {AfterLine(records, current_record, lines[line_no + 1])} :
           /\ records' = out.records
           /\ current_record' = out.current_record
    /\ line_no' = line_no + 1
    /\ UNCHANGED <<lines, ris_pc, doiVars, mainVars, fileVars>>

\* the save_record() after the loop, and the return
EndOfInput ==
    /\ ris_pc = "reading"
    /\ line_no = Len(lines)
    /\ records' = save_record(records, current_record)
    /\ ris_pc' = "done"
    /\ UNCHANGED <<lines, line_no, current_record, doiVars, mainVars, fileVars>>

RisNext == ReadLine \/ EndOfInput

SpecRis == RisInit /\ [][RisNext]_vars

----------------------------------------------------------------------------
(* parse_file on one uploaded file: a table of up to MaxColumns distinct    *)
(* header cells and one data row of at most as many cells, written with    *)
(* the delimiter its extension calls for; a small RIS file; an empty file. *)

MaxColumns == 3

HeaderPool == {
    <<"A", "r", "t", "i", "c", "l", "e", " ", "T", "i", "t", "l", "e">>,
    <<" ", "A", "u", "t", "h", "o", "r">>,
    <<"P", "u", "b", "l", "i", "c", "a", "t", "i", "o", "n", " ", "Y", "e", "a", "r">>,
    <<"D", "O", "I">>,
    <<"N", "o", "t", "e", "s">> }

CellPool == {<<"x">>, <<>>}

Headers ==
    {h \in UNION {[1..n -> HeaderPool] : n \in 1..MaxColumns} :
        \A i, j \in 1..Len(h) : i # j => h[i] # h[j]}

Tables == {<<h, row>> : h \in Headers, row \in UNION {[1..n -> CellPool] : n \in 1..MaxColumns}}

Extensions == {ExtCsv, ExtTsv, <<".", "T", "X", "T">>, ExtRis, ExtBib}

\* the text of a table: its lines joined by line feeds, its cells by sep
Text(table, sep) == Join(table[1], <<sep>>) \o <<"LF">> \o Join(table[2], <<sep>>) \o <<"LF">>

RisText == <<"T", "Y", " ", " ", "-", " ", "J", "O", "U", "R">> \o <<"LF">> \o
           <<"T", "I", " ", " ", "-", " ", "A", " ", "b">> \o <<"LF">> \o
           <<"E", "R", " ", " ", "-", " ">> \o <<"LF">>

UploadedFiles ==
    {[ext |-> e, content |-> Text(t, IF e = ExtCsv THEN "," ELSE "TAB")] :
        e \in Extensions, t \in {t \in Tables : Len(t[2]) <= Len(t[1])}}
    \cup {[ext |-> e, content |-> c] : e \in Extensions, c \in {RisText, <<>>}}

FileInit ==
    /\ uploaded_file \in UploadedFiles
    /\ parsed = <<>>
    /\ file_pc = "uploaded"
    /\ DoiIdle
    /\ MainIdle
    /\ RisIdle

\* records = parse_file(uploaded_file), with its except branch
ParseFile ==
    /\ file_pc = "uploaded"
    /\ \E out \in {parse_file(uploaded_file)} :
           /\ parsed' = out.records
           /\ file_pc' = IF out.raised THEN "error_reported" ELSE "returned"
    /\ UNCHANGED <<uploaded_file, doiVars, mainVars, risVars>>

FileNext == ParseFile

SpecFile == FileInit /\ [][FileNext]_vars

----------------------------------------------------------------------------
(* Properties of the specification, and the notions they speak of *)

\* the loop of deduplicate_records has seen every record
Deduplicated == pc \in {"walk", "converted", "KeyError"} /\ walked = Len(records_sorted)
\* main has run to its end, normally or by an exception
Finished == pc \in {"converted", "KeyError"}

NormalizedDoi(rec) == normalize_doi(Get(rec, "doi", <<>>))
\* neither a usable DOI nor a usable fingerprint
NoSignal(rec) == NormalizedDoi(rec) = <<>> /\ Len(create_fingerprint(rec)) < 11
SurvivorIdx == {unique_records[u].idx : u \in 1..Len(unique_records)}
InputDois == {Get(all_records[k], "doi", <<>>) : k \in 1..Len(all_records)}

\* a string with letter case and diacritics folded away
Fold(s) == Lower(DropMn(NFD(Str(s))))

\* C1: no two survivors have the same non-empty normalized DOI, whatever their
\* other fields; a record with doi https://doi.org/10.1/x and one with doi
\* 10.1/x leave one survivor and one DOI duplicate.
C1_NoTwoSurvivorsShareDoi ==
    /\ \A i, j \in 1..Len(unique_records) :
           i < j => \/ NormalizedDoi(unique_records[i].rec) = <<>>
                    \/ NormalizedDoi(unique_records[i].rec) # NormalizedDoi(unique_records[j].rec)
    /\ (Deduplicated /\ Len(all_records) = 2 /\ InputDois = {DoiUrlX, DoiBareX})
           => Len(unique_records) = 1 /\ duplicates_by_doi = 1

C1_Witness ==
    /\ Deduplicated
    /\ Len(all_records) = 2
    /\ InputDois = {DoiUrlX, DoiBareX}
    /\ all_records[1].title # all_records[2].title
    /\ Len(unique_records) = 1
    /\ duplicates_by_doi = 1

\* C2: normalize_doi is idempotent: normalizing its own result changes nothing.
C2_NormalizeDoiIdempotent == doi_pc = "twice" => doi_twice = doi_once

\* two records are duplicates of each other
DuplicatesOfEachOther(a, b) ==
    \/ NormalizedDoi(a) # <<>> /\ NormalizedDoi(a) = NormalizedDoi(b)
    \/ Matchable(create_fingerprint(a)) /\ create_fingerprint(a) = create_fingerprint(b)

\* C3: the walk order is descending by score and, within equal scores,
\* ascending by ingestion index; so among equally complete duplicates the
\* survivor is the one that was ingested first.
C3_FirstIngestedSurvives ==
    /\ pc # "start" =>
           \A p, q \in 1..Len(records_sorted) :
               p < q => \/ Score(records_sorted[p].rec) > Score(records_sorted[q].rec)
                        \/ /\ Score(records_sorted[p].rec) = Score(records_sorted[q].rec)
                           /\ records_sorted[p].idx < records_sorted[q].idx
    /\ Deduplicated =>
           \A u \in 1..Len(unique_records) : \A i \in 1..Len(all_records) :
               ( /\ i # unique_records[u].idx
                 /\ Score(all_records[i]) = Score(unique_records[u].rec)
                 /\ DuplicatesOfEachOther(all_records[i], unique_records[u].rec) )
               => unique_records[u].idx < i

C5_EmptyInputCompletes ==
    (Finished /\ all_records = <<>>) =>
        /\ pc = "converted"
        /\ unique_records = <<>>
        /\ duplicates_by_doi = 0
        /\ duplicates_by_fingerprint = 0
        /\ scopus_df.rows = <<>>

\* C6: a record with an empty normalized DOI and a fingerprint of fewer than 11
\* characters is always a survivor, wherever it stands in the input and however
\* many such records there are, and is never counted or listed as a duplicate:
\* the records counted and listed are exactly the walked records that have a
\* DOI or a matchable fingerprint and did not survive.
C6_NoSignalAlwaysKept ==
    LET Walked == {records_sorted[p] : p \in 1..walked}
        Removed == {w \in Walked : w.idx \notin SurvivorIdx}
    IN  /\ \A w \in Walked : NoSignal(w.rec) => w.idx \in SurvivorIdx
        /\ Len(duplicate_details) = Cardinality({w \in Removed : ~NoSignal(w.rec)})
        /\ duplicates_by_doi + duplicates_by_fingerprint = Len(duplicate_details)

C6_Witness ==
    /\ Deduplicated
    /\ Len(all_records) = 3
    /\ \A i \in 1..3 : NoSignal(all_records[i])
    /\ all_records[1] = all_records[2]
    /\ all_records[1] # all_records[3]
    /\ Len(unique_records) = 3

\* C7: two records with no DOI whose title, authors and year are the same up
\* to letter case and diacritics have the same fingerprint, and deduplicating
\* the two leaves one survivor and one fingerprint duplicate.  (Stated for
\* records that carry enough to be fingerprinted at all.)
C7_CaseAndDiacriticsFold ==
    ( /\ Deduplicated
      /\ Len(all_records) = 2
      /\ \A i \in 1..2 : /\ Get(all_records[i], "doi", <<>>) = <<>>
                         /\ Matchable(create_fingerprint(all_records[i]))
      /\ Fold(Get(all_records[1], "title", <<>>)) = Fold(Get(all_records[2], "title", <<>>))
      /\ Fold(Get(all_records[1], "authors", <<>>)) = Fold(Get(all_records[2], "authors", <<>>))
      /\ Get(all_records[1], "year", <<>>) = Get(all_records[2], "year", <<>>) )
    => /\ create_fingerprint(all_records[1]) = create_fingerprint(all_records[2])
       /\ Len(unique_records) = 1
       /\ duplicates_by_fingerprint = 1

\* what one line offers to the record it belongs to: a single-valued field
\* and the value the parser would store for it; field "" when it offers none
NoOffer == [field |-> "", value |-> <<>>]
Offer(raw) ==
    LET m == Match(RStripNewline(raw))
        field == ris_mapping(m.tag)
    IN  IF ~m.ok \/ m.tag = <<"E", "R">> \/ field = "" THEN NoOffer
        ELSE IF m.tag \in AuthorTags \cup {<<"K", "W">>, <<"A", "D">>} THEN NoOffer
        ELSE IF m.tag \in YearTags
             THEN IF YearSearch(m.value) # <<>>
                  THEN [field |-> "year", value |-> YearSearch(m.value)] ELSE NoOffer
        ELSE IF m.tag = <<"S", "N">>
             THEN [field |-> "issn", value |-> FirstToken(Strip(RemoveIssnMark(m.value)))]
        ELSE [field |-> field, value |-> m.value]

IsTag(raw, tag) == Match(RStripNewline(raw)).ok /\ Match(RStripNewline(raw)).tag = tag
IsBoundary(raw) == IsTag(raw, <<"T", "Y">>) \/ IsTag(raw, <<"E", "R">>)
\* the lines read so far that belong to the record now open
OpenLines == {k \in 1..line_no : \A j \in (k + 1)..line_no : ~IsBoundary(lines[j])}
ListKeys == {"AU_list", "KW_list", "AD_list"}

\* C8: every single-valued field of a record holds the value of the first
\* line of the record that supplies the field; later lines for the same field
\* (the same tag again, or an alias) never change it.  (An emitted record is a
\* copy of the open record, so the property is stated of the open record.)
C8_FirstOccurrenceWins ==
    \A f \in DOMAIN current_record \ ListKeys :
        LET offering == {k \in OpenLines : Offer(lines[k]).field = f}
        IN  /\ offering # {}
            /\ current_record[f] =
                   Offer(lines[CHOOSE k \in offering : \A j \in offering : k <= j]).value

\* the values of the TY lines among the first n lines, in order
TyValues(n) ==
    LET F[k \in 0..n] ==
            IF k = 0 THEN <<>>
            ELSE IF IsTag(lines[k], <<"T", "Y">>)
                 THEN Append(F[k - 1], Match(RStripNewline(lines[k])).value)
                 ELSE F[k - 1]
    IN  F[n]

\* the doc_type of each emitted record that a TY line opened, in order
DocTypes(recs) ==
    LET F[k \in 0..Len(recs)] ==
            IF k = 0 THEN <<>>
            ELSE IF "doc_type" \in DOMAIN recs[k]
                 THEN Append(F[k - 1], recs[k]["doc_type"])
                 ELSE F[k - 1]
    IN  F[Len(recs)]

OpenDocType ==
    IF "doc_type" \in DOMAIN current_record THEN <<current_record["doc_type"]>> ELSE <<>>

\* C10: each TY line opens a record seeded only with doc_type; that record is
\* emitted exactly once, at the next TY line, the next ER line or the end of
\* input; ER emits the open record and opens none; records are emitted in the
\* order they were opened; a line that does not match the tag grammar changes
\* nothing; no emitted record is an empty map.
C10_Records ==
    /\ \A r \in 1..Len(records) : DOMAIN records[r] # {}
    /\ ris_pc = "reading" => DocTypes(records) \o OpenDocType = TyValues(line_no)
    /\ ris_pc = "done" => DocTypes(records) = TyValues(Len(lines))
    /\ (ris_pc = "reading" /\ line_no > 0) =>
           /\ IsTag(lines[line_no], <<"T", "Y">>) =>
                  /\ DOMAIN current_record = {"doc_type"}
                  /\ current_record["doc_type"] = Match(RStripNewline(lines[line_no])).value
           /\ IsTag(lines[line_no], <<"E", "R">>) => DOMAIN current_record = {}
    /\ ris_pc = "reading" =>
           (OpenDocType # <<>> <=>
               \E k \in OpenLines : IsTag(lines[k], <<"T", "Y">>))

C10_UnmatchedLineIsInert ==
    ( /\ ris_pc = "reading"
      /\ line_no < Len(lines)
      /\ ~Match(RStripNewline(lines[line_no + 1])).ok )
    => (records' = records /\ current_record' = current_record)

C10_RecordBoundaries == []C10_Records /\ [][C10_UnmatchedLineIsInert]_vars

C10_Witness ==
    /\ ris_pc = "done"
    /\ Len(lines) = 3
    /\ IsTag(lines[1], <<"T", "Y">>)
    /\ IsTag(lines[2], <<"T", "Y">>)
    /\ IsTag(lines[3], <<"E", "R">>)
    /\ lines[1] # lines[2]
    /\ Len(records) = 2

\* the content with every tab replaced by a comma
CommaTwin(content) == [i \in 1..Len(content) |-> IF content[i] = "TAB" THEN "," ELSE content[i]]

\* C9: the header aliases are applied to both delimited formats: a tab-
\* separated file yields records with the same field names as the comma-
\* separated file with the same header and rows, so that "Article Title",
\* "Author", "Publication Year" become title, authors, year.
C9_AliasesInBothFormats ==
    (file_pc = "returned" /\ Lower(uploaded_file.ext) \in {ExtTsv, ExtTxt}) =>
        LET twin == parse_file([ext |-> ExtCsv, content |-> CommaTwin(uploaded_file.content)])
        IN  /\ Len(parsed) = Len(twin.records)
            /\ \A r \in 1..Len(parsed) : DOMAIN parsed[r] = DOMAIN twin.records[r]
            /\ \A r \in 1..Len(parsed) :
                   DOMAIN parsed[r] =
                       {column_mapping(Strip(Lower(h))) :
                           h \in Range(Split(Head(Split(uploaded_file.content, "LF")), "TAB"))}

\* the explicit page field `key` of a record, '' when absent or empty
ExplicitPage(rec, key) == OrEmpty(Get(rec, key, <<>>))

\* C11: the combined pages field is split into Page start / Page end only
\* when the record has neither an explicit page_start nor an explicit
\* page_end; whenever either explicit field is non-empty, the output
\* Page start and Page end are the explicit page_start and page_end unchanged.
C11_ExplicitPagesUnchanged ==
    pc = "converted" =>
        \A r \in 1..Len(scopus_df.rows) :
            LET rec == unique_records[r].rec
            IN  (ExplicitPage(rec, "page_start") # <<>> \/ ExplicitPage(rec, "page_end") # <<>>)
                => /\ scopus_df.rows[r]["Page start"] = ExplicitPage(rec, "page_start")
                   /\ scopus_df.rows[r]["Page end"] = ExplicitPage(rec, "page_end")

\* what the code does keep: an explicit page_start is never
\* replaced, and a record with no pages field keeps both explicit fields
ExplicitStartKept ==
    pc = "converted" =>
        \A r \in 1..Len(scopus_df.rows) :
            LET rec == unique_records[r].rec
            IN  /\ ExplicitPage(rec, "page_start") # <<>>
                   => /\ scopus_df.rows[r]["Page start"] = ExplicitPage(rec, "page_start")
                      /\ scopus_df.rows[r]["Page end"] = ExplicitPage(rec, "page_end")
                /\ ExplicitPage(rec, "pages") = <<>>
                   => /\ scopus_df.rows[r]["Page start"] = ExplicitPage(rec, "page_start")
                      /\ scopus_df.rows[r]["Page end"] = ExplicitPage(rec, "page_end")

\* the entries of duplicate_details with the given method
DetailsOf(method) == {k \in 1..Len(duplicate_details) : duplicate_details[k][1] = method}

\* C12: deduplicate_records accounts for each record exactly once: survivors
\* plus DOI duplicates plus fingerprint duplicates are the n input records
\* (after every iteration: the records walked so far), the provenance list
\* has one entry per removed record, as many of method DOI as
\* duplicates_by_doi and as many of method Fingerprint as
\* duplicates_by_fingerprint, no record is counted under both methods or kept
\* twice, and when n > 0 at least one record survives.
C12_EveryRecordAccountedOnce ==
    /\ pc # "start" =>
        /\ Len(unique_records) + duplicates_by_doi + duplicates_by_fingerprint = walked
        /\ Len(duplicate_details) = duplicates_by_doi + duplicates_by_fingerprint
        /\ Cardinality(DetailsOf("DOI")) = duplicates_by_doi
        /\ Cardinality(DetailsOf("Fingerprint")) = duplicates_by_fingerprint
        /\ Cardinality(SurvivorIdx) = Len(unique_records)
        /\ SurvivorIdx \subseteq {records_sorted[p].idx : p \in 1..walked}
        /\ walked > 0 => Len(unique_records) > 0
    /\ Deduplicated =>
        /\ Len(unique_records) + duplicates_by_doi + duplicates_by_fingerprint
               = Len(all_records)
        /\ Len(duplicate_details) = Len(all_records) - Len(unique_records)
        /\ Len(all_records) > 0 => Len(unique_records) > 0

\* three records walked: one kept, one removed by DOI, one by fingerprint
C12_Witness ==
    /\ Deduplicated
    /\ Len(all_records) = 3
    /\ Len(unique_records) = 1
    /\ duplicates_by_doi = 1
    /\ duplicates_by_fingerprint = 1
    /\ Len(duplicate_details) = 2

\* the position in the walk of the record ingested as number idx
PositionOf(idx) == CHOOSE p \in 1..Len(records_sorted) : records_sorted[p].idx = idx

\* the record walked at position p was removed
Removed(p) == records_sorted[p].idx \notin SurvivorIdx

\* the position in the walk of the k-th removed record, the one that
\* duplicate_details[k] was appended for
RemovedAt(k) ==
    CHOOSE p \in 1..walked :
        Removed(p) /\ Cardinality({q \in 1..p : Removed(q)}) = k

\* record b justifies the removal of record a by the given method
SameKey(method, a, b) ==
    IF method = "DOI"
    THEN /\ NormalizedDoi(a) # <<>>
         /\ Lower(NormalizedDoi(a)) = Lower(NormalizedDoi(b))
    ELSE create_fingerprint(a) = create_fingerprint(b)

\* C13: every removed record has a witness among the survivors: a surviving
\* record, earlier in the sorted walk order, with the same normalized DOI
\* (compared case-insensitively) when the removal method is DOI, or with the
\* same fingerprint when the method is Fingerprint; so a record removed as a
\* fingerprint duplicate never causes a later record to be removed through a
\* DOI that no survivor carries.
C13_RemovedHasSurvivingWitness ==
    Deduplicated =>
        \A k \in 1..Len(duplicate_details) :
            \E u \in 1..Len(unique_records) :
                /\ PositionOf(unique_records[u].idx) < RemovedAt(k)
                /\ SameKey(duplicate_details[k][1],
                           records_sorted[RemovedAt(k)].rec, unique_records[u].rec)

\* what the loop does guarantee: the witness is an earlier record of the
\* walk, a survivor when the method is Fingerprint, any record when it is DOI
RemovedHasWalkedWitness ==
    Deduplicated =>
        \A k \in 1..Len(duplicate_details) :
            \E q \in 1..(RemovedAt(k) - 1) :
                /\ duplicate_details[k][1] = "Fingerprint" => ~Removed(q)
                /\ SameKey(duplicate_details[k][1],
                           records_sorted[RemovedAt(k)].rec, records_sorted[q].rec)

=============================================================================
